---- MODULE Spec2Model ----
(***************************************************************************)
(* State-machine model of n1ord/probecache: the bounded LFU and LRU        *)
(* sharded caches (probe-based eviction) behind their storage facades.     *)
(*                                                                         *)
(* An entry is the byte buffer  expire(8) | worth(8) | payload ; it is     *)
(* modelled as the record [expire, worth, payload] and its byte length is  *)
(* Len(payload) + HeaderLen.  uint64 values that come from the caller      *)
(* (ttl, expire, key hash) are kept modulo Word, a scaled-down 2^64.       *)
(* The clock counts whole seconds.  The float64 values of the LRU shard    *)
(* (worth, totalWorth, threshold) are kept with MantBits significant bits  *)
(* and rounded to nearest, ties to even, as IEEE-754 arithmetic does.      *)
(***************************************************************************)
EXTENDS Integers, Sequences, FiniteSets, TLC

(***************************************************************************)
(* Bounds of the model.                                                    *)
(***************************************************************************)
WordBits == 4
MaxTime == 2
MaxWorth == 1
MaxOverwrites == 1
MantBits == 1
BigLen == 20
LateSeconds == 2
MaxCalls == 4

(***************************************************************************)
(* Program constants.                                                      *)
(***************************************************************************)
HeaderLen == 16
TTLHeaderLen == 8

Word == 2 ^ WordBits
MaxUint == Word - 1

VARIABLES phase, args, env, shards, shardMask, clock, ret, hist

\* The goroutines calling into the storage: thr[t] is the call thread t is
\* in, with its position and local variables; mutex[i] is the RWMutex
\* embedded in shard i; calls counts the calls started.
VARIABLES thr, mutex, calls

cvars == <<thr, mutex, calls>>

vars == <<phase, args, env, shards, shardMask, clock, ret, hist, thr, mutex, calls>>

(***************************************************************************)
(* Helpers on Go maps and integers.                                        *)
(***************************************************************************)
MapDelete(m, k) == [x \in DOMAIN m \ {k} |-> m[x]]

MapPut(m, k, v) == [x \in DOMAIN m \cup {k} |-> IF x = k THEN v ELSE m[x]]

EmptyMap == [x \in {} |-> 0]

RECURSIVE xor(_, _)
xor(a, b) ==
    IF a = 0 THEN b
    ELSE IF b = 0 THEN a
    ELSE (((a % 2) + (b % 2)) % 2) + 2 * xor(a \div 2, b \div 2)

\* Go's integer division truncates toward zero.
GoDiv(a, b) == IF a >= 0 THEN a \div b ELSE -((-a) \div b)

(***************************************************************************)
(* float64, scaled down to MantBits significant bits (the exponent is not  *)
(* bounded).  fl(x) is the float nearest to the integer x, ties to even.   *)
(***************************************************************************)
RECURSIVE Log2(_)
Log2(x) == IF x <= 1 THEN 0 ELSE 1 + Log2(x \div 2)

flPos(x) ==
    IF x < 2 ^ MantBits THEN x
    ELSE LET ulp == 2 ^ (Log2(x) - MantBits + 1)
             q == x \div ulp
             r == x % ulp
         IN  IF 2 * r < ulp \/ (2 * r = ulp /\ q % 2 = 0)
             THEN q * ulp ELSE (q + 1) * ulp

fl(x) == IF x < 0 THEN -flPos(-x) ELSE flPos(x)

\* worth <= totalWorth / float64(n) in float64, for a float worth >= 0: the
\* quotient is rounded once; it reaches worth when it is at least the
\* midpoint between worth and the float below it (the tie goes to the float
\* with the even significand).
leqQuotient(worth, totalWorth, n) ==
    IF n = 0 THEN FALSE
    ELSE IF totalWorth >= worth * n THEN TRUE
    ELSE IF worth <= 0 THEN FALSE
    ELSE LET e == Log2(worth)
             isPow == worth = 2 ^ e
             gap == IF isPow THEN 2 ^ e ELSE 2 ^ (e + 1)
             mid == 2 ^ (MantBits + 1) * worth - gap
             even == isPow \/ (worth \div (2 ^ (e - MantBits + 1))) % 2 = 0
             lhs == totalWorth * 2 ^ (MantBits + 1)
         IN  lhs > mid * n \/ (lhs = mid * n /\ even)

\* totalWorth -= worth: uint64 for LFU, float64 for LRU.
sub(policy, a, b) == IF policy = "LFU" THEN a - b ELSE fl(a - b)

(***************************************************************************)
(* probecache.go: the FNV-1a constants, reduced modulo Word (the low       *)
(* WordBits bits of an FNV-1a hash depend only on the low bits of the      *)
(* constants and of the key bytes; 37 and 179 are their low bytes).        *)
(***************************************************************************)
offset64 == 37 % Word
prime64 == 179 % Word

(***************************************************************************)
(* Entry encoding.                                                         *)
(***************************************************************************)
wrapData(d, ttl, worth, now) ==
    [expire |-> (now + ttl) % Word, worth |-> worth, payload |-> d]

unwrapData(e) == <<e.payload, e.expire, e.worth>>

len(e) == Len(e.payload) + HeaderLen

\* A faulty isExpired that still serves an entry in its expiry second.
isExpiredStrict(ts, now) == ts < now

isExpired(ts, now) == ts <= now

\* A faulty incHit that counts a hit twice.
incHitTwice(e) == [e EXCEPT !.worth = @ + 2]

incHit(e) == [e EXCEPT !.worth = @ + 1]

\* LRU: worth := time.Since(epoch).Seconds(), a float64.
setTs(e, epoch, now) == [e EXCEPT !.worth = fl(now - epoch)]

(***************************************************************************)
(* A shard: [data, maxCleanDepth, maxSize, critSize, size, totalWorth,     *)
(* now].  now is the LRU shard epoch; the LFU shard has no such field and  *)
(* keeps it at 0.                                                          *)
(***************************************************************************)
NewShard(maxSize, critSize, maxCleanDepth, now) ==
    [data |-> EmptyMap,
     maxSize |-> maxSize,
     critSize |-> IF critSize = 0 THEN maxSize ELSE critSize,
     maxCleanDepth |-> maxCleanDepth,
     size |-> 0,
     totalWorth |-> 0,
     now |-> now]

(***************************************************************************)
(* The clean pass.  The threshold is totalWorth / len(data), taken once:   *)
(* integer division for LFU, float64 division for LRU.  It is kept as      *)
(* the pair <<totalWorth, len(data)>> and compared by belowThreshold.      *)
(***************************************************************************)
\* A faulty threshold test that spares an entry whose worth equals the mean.
belowThresholdStrict(policy, worth, th) ==
    IF policy = "LFU" THEN worth < th[1] \div th[2]
    ELSE leqQuotient(worth, th[1], th[2]) /\ worth * th[2] # th[1]

belowThreshold(policy, worth, th) ==
    IF policy = "LFU" THEN worth <= th[1] \div th[2]
    ELSE leqQuotient(worth, th[1], th[2])

\* What a clean pass did: ran (it passed the precondition), iter (its final
\* value), visited (entries looked at), evicted (their keys), forced (entries
\* evicted although unexpired and above the threshold), scanned (the range
\* loop ended because no entry was left to visit), late (an entry was
\* evicted although size was already <= maxSize), panic; th (totalWorth and
\* len(s.data) when the threshold was computed) and log (one record per
\* iteration: the key and entry visited, iter and size at the head of the
\* iteration, and whether the entry was deleted).
NoClean == [ran |-> FALSE, iter |-> 0, visited |-> 0, evicted |-> {},
            forced |-> 0, scanned |-> FALSE, late |-> FALSE, panic |-> FALSE,
            th |-> <<0, 0>>, log |-> <<>>]

\* A faulty iteration that computes the threshold anew from the shard as
\* the evictions of the pass have left it.
cleanVisitRecomputes(policy, s, iter, th, k, now) ==
    LET u == unwrapData(s.data[k])
        th2 == <<s.totalWorth, Cardinality(DOMAIN s.data)>>
    IN  IF belowThreshold(policy, u[3], th2) \/ isExpired(u[2], now) \/ iter <= 0
        THEN [s EXCEPT !.totalWorth = sub(policy, @, u[3]),
                       !.size = @ - len(s.data[k]),
                       !.data = MapDelete(@, k)]
        ELSE s

\* One iteration of the range loop of clean on key k.
cleanVisit(policy, s, iter, th, k, now) ==
    LET u == unwrapData(s.data[k])
        expire == u[2]
        worth == u[3]
    IN  IF belowThreshold(policy, worth, th) \/ isExpired(expire, now) \/ iter <= 0
        THEN [s EXCEPT !.totalWorth = sub(policy, @, worth),
                       !.size = @ - len(s.data[k]),
                       !.data = MapDelete(@, k)]
        ELSE s

\* A faulty stop test that gives up as soon as the budget is used, without
\* looking at critSize.
cleanBreakNoCritTest(s, iter) ==
    s.size <= s.maxSize \/ iter = -2 \/ iter <= 0

\* A faulty stop test that lets an exhausted budget go on down to maxSize.
cleanBreakCritAsMax(s, iter) ==
    s.size <= s.maxSize \/ iter = -2 \/ (iter <= 0 /\ s.size < s.maxSize)

\* A faulty stop test without the hard stop at iter = -2.
cleanBreakNoHardStop(s, iter) ==
    s.size <= s.maxSize \/ (iter <= 0 /\ s.size < s.critSize)

\* A faulty stop test that does not look at maxSize.
cleanBreakNoGoalTest(s, iter) ==
    iter = -2 \/ (iter <= 0 /\ s.size < s.critSize)

\* A faulty stop test that stops below critSize whatever budget is left.
cleanBreakNoBudgetTest(s, iter) ==
    s.size <= s.maxSize \/ iter = -2 \/ s.size < s.critSize

cleanBreak(s, iter) ==
    s.size <= s.maxSize \/ iter = -2 \/ (iter <= 0 /\ s.size < s.critSize)

\* The range loop over the map in every order Go's map iteration can take:
\* each key still in the map is visited at most once.
RECURSIVE cleanLoop(_, _, _, _, _, _, _)
cleanLoop(policy, s, iter, th, pending, now, info) ==
    IF pending = {}
    THEN {[s |-> s, info |-> [info EXCEPT !.iter = iter, !.scanned = TRUE]]}
    ELSE IF cleanBreak(s, iter)
    THEN {[s |-> s, info |-> [info EXCEPT !.iter = iter]]}
    ELSE UNION { LET s2 == cleanVisit(policy, s, iter, th, k, now)
                     e == s.data[k]
                     gone == k \notin DOMAIN s2.data
                     isForced == gone /\ ~belowThreshold(policy, e.worth, th)
                                      /\ ~isExpired(e.expire, now)
                     info2 == [info EXCEPT
                                 !.visited = @ + 1,
                                 !.evicted = IF gone THEN @ \cup {k} ELSE @,
                                 !.forced = IF isForced THEN @ + 1 ELSE @,
                                 !.late = @ \/ (gone /\ s.size <= s.maxSize),
                                 !.log = Append(@, [key |-> k, e |-> e,
                                                    iter |-> iter,
                                                    size |-> s.size,
                                                    gone |-> gone])]
                 IN  cleanLoop(policy, s2, iter - 1, th, pending \ {k}, now, info2)
               : k \in pending }

\* clean: the set of outcomes [s, info]; info.panic is the runtime panic
\* "integer divide by zero" of the LFU threshold on an empty map.
clean(policy, s, now) ==
    IF s.maxSize <= 0 \/ s.size <= s.maxSize
    THEN {[s |-> s, info |-> NoClean]}
    ELSE IF policy = "LFU" /\ Cardinality(DOMAIN s.data) = 0
    THEN {[s |-> s, info |-> [NoClean EXCEPT !.ran = TRUE, !.panic = TRUE,
                                             !.th = <<s.totalWorth, 0>>]]}
    ELSE cleanLoop(policy, s, s.maxCleanDepth,
                   <<s.totalWorth, Cardinality(DOMAIN s.data)>>,
                   DOMAIN s.data, now,
                   [NoClean EXCEPT !.ran = TRUE, !.iter = s.maxCleanDepth,
                                   !.th = <<s.totalWorth,
                                            Cardinality(DOMAIN s.data)>>])

(***************************************************************************)
(* Shard operations.  Each returns the shard after the call and the        *)
(* returned values; Set returns one outcome per clean outcome.             *)
(***************************************************************************)
\* A faulty lookup whose lazy removal gives back the payload bytes only.
LFUGetWithTTLKeepsHeader(s, key, now, now2) ==
    IF key \in DOMAIN s.data
    THEN LET data == s.data[key]
             u == unwrapData(data)
         IN  IF isExpired(u[2], now)
             THEN [s |-> [s EXCEPT !.totalWorth = @ - u[3],
                                   !.size = @ - Len(u[1]),
                                   !.data = MapDelete(@, key)],
                   val |-> <<>>, ttl |-> 0, err |-> "ErrMissing", expire |-> u[2]]
             ELSE [s |-> [s EXCEPT !.data = MapPut(@, key, incHit(data)),
                                   !.totalWorth = @ + 1],
                   val |-> u[1], ttl |-> (u[2] - now2) % Word, err |-> "nil",
                   expire |-> u[2]]
    ELSE [s |-> s, val |-> <<>>, ttl |-> 0, err |-> "ErrMissing", expire |-> 0]

LFUGetWithTTL(s, key, now, now2) ==
    IF key \in DOMAIN s.data
    THEN LET data == s.data[key]
             u == unwrapData(data)
         IN  IF isExpired(u[2], now)
             THEN [s |-> [s EXCEPT !.totalWorth = @ - u[3],
                                   !.size = @ - len(data),
                                   !.data = MapDelete(@, key)],
                   val |-> <<>>, ttl |-> 0, err |-> "ErrMissing", expire |-> u[2]]
             ELSE [s |-> [s EXCEPT !.data = MapPut(@, key, incHit(data)),
                                   !.totalWorth = @ + 1],
                   val |-> u[1], ttl |-> (u[2] - now2) % Word, err |-> "nil",
                   expire |-> u[2]]
    ELSE [s |-> s, val |-> <<>>, ttl |-> 0, err |-> "ErrMissing", expire |-> 0]

LRUGetWithTTL(s, key, now, now2) ==
    IF key \in DOMAIN s.data
    THEN LET data == s.data[key]
             u == unwrapData(data)
             s1 == [s EXCEPT !.totalWorth = fl(@ - u[3])]
         IN  IF isExpired(u[2], now)
             THEN [s |-> [s1 EXCEPT !.size = @ - len(data),
                                    !.data = MapDelete(@, key)],
                   val |-> <<>>, ttl |-> 0, err |-> "ErrMissing", expire |-> u[2]]
             ELSE LET data2 == setTs(data, s.now, now)
                  IN [s |-> [s1 EXCEPT !.data = MapPut(@, key, data2),
                                       !.totalWorth = fl(@ + data2.worth)],
                      val |-> u[1], ttl |-> (u[2] - now2) % Word, err |-> "nil",
                      expire |-> u[2]]
    ELSE [s |-> s, val |-> <<>>, ttl |-> 0, err |-> "ErrMissing", expire |-> 0]

ShardGetWithTTL(policy, s, key, now, now2) ==
    IF policy = "LFU" THEN LFUGetWithTTL(s, key, now, now2)
    ELSE LRUGetWithTTL(s, key, now, now2)

\* Set after the lookup: the insertion of the wrapped entry.
setInsert(s, key, data, ttl, worth, now) ==
    LET d == wrapData(data, ttl, worth, now)
    IN  [s EXCEPT !.size = @ + len(d), !.data = MapPut(@, key, d)]

\* A faulty Set that starts the worth of an overwritten entry again at 0.
ShardSetResetsWorth(policy, s, key, data, ttl, now) ==
    IF key \in DOMAIN s.data
    THEN LET u == unwrapData(s.data[key])
             s1 == [s EXCEPT !.size = @ - Len(u[1])]
         IN  {[s |-> setInsert(s1, key, data, ttl, 0, now), info |-> NoClean]}
    ELSE { IF c.info.panic THEN c
           ELSE [s |-> setInsert(c.s, key, data, ttl, 0, now), info |-> c.info]
         : c \in clean(policy, s, now) }

\* A faulty Set that runs the clean pass on every call, before it looks
\* the key up.
ShardSetAlwaysCleans(policy, s, key, data, ttl, now) ==
    { IF c.info.panic THEN c
      ELSE IF key \in DOMAIN c.s.data
      THEN LET u == unwrapData(c.s.data[key])
               s1 == [c.s EXCEPT !.size = @ - Len(u[1])]
           IN  [s |-> setInsert(s1, key, data, ttl, u[3], now), info |-> c.info]
      ELSE [s |-> setInsert(c.s, key, data, ttl, 0, now), info |-> c.info]
    : c \in clean(policy, s, now) }

ShardSet(policy, s, key, data, ttl, now) ==
    IF key \in DOMAIN s.data
    THEN LET u == unwrapData(s.data[key])
             s1 == [s EXCEPT !.size = @ - Len(u[1])]
         IN  {[s |-> setInsert(s1, key, data, ttl, u[3], now), info |-> NoClean]}
    ELSE { IF c.info.panic THEN c
           ELSE [s |-> setInsert(c.s, key, data, ttl, 0, now), info |-> c.info]
         : c \in clean(policy, s, now) }

\* A faulty Del that settles the counters but leaves the entry in the map.
ShardDelKeepsEntry(policy, s, key) ==
    IF key \in DOMAIN s.data
    THEN LET data == s.data[key]
             u == unwrapData(data)
         IN  [s EXCEPT !.totalWorth = sub(policy, @, u[3]),
                       !.size = @ - len(data)]
    ELSE s

\* A faulty Del that charges the header of a key it did not find.
ShardDelChargesAbsent(policy, s, key) ==
    IF key \in DOMAIN s.data
    THEN LET data == s.data[key]
             u == unwrapData(data)
         IN  [s EXCEPT !.data = MapDelete(@, key),
                       !.totalWorth = sub(policy, @, u[3]),
                       !.size = @ - len(data)]
    ELSE [s EXCEPT !.size = @ - HeaderLen]

ShardDel(policy, s, key) ==
    IF key \in DOMAIN s.data
    THEN LET data == s.data[key]
             u == unwrapData(data)
         IN  [s EXCEPT !.data = MapDelete(@, key),
                       !.totalWorth = sub(policy, @, u[3]),
                       !.size = @ - len(data)]
    ELSE s

LFUClear(s) == [s EXCEPT !.data = EmptyMap, !.totalWorth = 0, !.size = 0]

LRUClear(s, now) ==
    [s EXCEPT !.data = EmptyMap, !.totalWorth = 0, !.size = 0, !.now = now]

ShardClear(policy, s, now) ==
    IF policy = "LFU" THEN LFUClear(s) ELSE LRUClear(s, now)

(***************************************************************************)
(* Storage facade.                                                         *)
(***************************************************************************)
RECURSIVE fnv(_, _)
fnv(hash, key) ==
    IF key = <<>> THEN hash
    ELSE fnv((xor(hash, Head(key) % Word) * prime64) % Word, Tail(key))

getKey(key) == fnv(offset64, key)

\* index of the shard of hash key; the caller guarantees shardMask # 0
getShard(key) == key % shardMask

(***************************************************************************)
(* Sums over the entries of a shard's map.                                 *)
(***************************************************************************)
RECURSIVE SumLen(_, _)
SumLen(m, keys) ==
    IF keys = {} THEN 0
    ELSE LET k == CHOOSE x \in keys : TRUE
         IN  len(m[k]) + SumLen(m, keys \ {k})

RECURSIVE SumWorth(_, _)
SumWorth(m, keys) ==
    IF keys = {} THEN 0
    ELSE LET k == CHOOSE x \in keys : TRUE
         IN  m[k].worth + SumWorth(m, keys \ {k})

EntryBytes(s) == SumLen(s.data, DOMAIN s.data)

EntryWorth(s) == SumWorth(s.data, DOMAIN s.data)

(***************************************************************************)
(* The state machine.                                                      *)
(*   phase     "new" before the constructor ran, "ready" after it          *)
(*             returned, "panic" once a call aborted with a runtime panic  *)
(*   args      the constructor arguments                                   *)
(*   env       the workload: the keys, payloads and ttls the callers use   *)
(*   shards    the shard vector, indexed 0 .. numShards-1                  *)
(*   shardMask uint64(numShards)                                           *)
(*   clock     time.Now().Unix()                                           *)
(*   ret       the last completed call and what it returned                *)
(*   hist      per key hash, the last Set of it and what happened since    *)
(***************************************************************************)
Args(policy, numShards, maxSize, maxCritSize, maxCleanDepth) ==
    [policy |-> policy, numShards |-> numShards, maxSize |-> maxSize,
     maxCritSize |-> maxCritSize, maxCleanDepth |-> maxCleanDepth]

Env(keys, payloads, ttls) == [keys |-> keys, payloads |-> payloads, ttls |-> ttls]

Policies == {"LFU", "LRU"}

\* The workloads: one or two payload lengths; ttl 0 (expired at once),
\* 1 (expires after a second) and MaxUint (the largest uint64).
K1 == {<<1>>}
K2 == {<<1>>, <<2>>}
K3 == {<<1>>, <<2>>, <<3>>}
P1 == {<<1>>}
P2 == {<<1>>, <<2, 3>>}
K4 == {<<1>>, <<2>>, <<3>>, <<4>>}
K5 == K4 \cup {<<5>>}
BigPayload == [i \in 1 .. BigLen |-> 2]

\* The constructor calls and workloads explored: no shard at all; one shard
\* of three keys with a probe budget of 1 and of 2; two shards of one key
\* each; one unbounded shard of one key with every payload and ttl.
Scenarios ==
    {[args |-> Args(p, 0, 30, 35, 1), env |-> Env(K2, P1, {1})] : p \in Policies}
    \cup {[args |-> Args(p, 1, 30, 35, n), env |-> Env(K3, P1, {1})]
            : p \in Policies, n \in {1, 2}}
    \cup {[args |-> Args(p, 2, 30, 32, 1), env |-> Env(K2, P1, {1})] : p \in Policies}
    \cup {[args |-> Args(p, 1, 0, 0, 1), env |-> Env(K1, P2, {0, 1, MaxUint})]
            : p \in Policies}

Hashes == {getKey(k) : k \in K5}

\* hist[h]: intact (the entry stored by the last Set(h) was not removed or
\* replaced since), and then v, at, ttl: that Set's payload, second and ttl.
NoHist == [intact |-> FALSE, v |-> <<>>, at |-> 0, ttl |-> 0, name |-> <<>>]

\* ret: the last completed call.  existed says whether the key was in the
\* map.  For a lookup, now is the second of the expiry check, expire the
\* expiry of the entry it found, last the hist of its key before the call,
\* and afterDel says that the call before it was a Del of the same key
\* ("removed" if that Del found the key, "absent" if not).  name is the key
\* string of the call and owner the key string of the Set that stored the
\* entry the call found under its hash.
NoRet == [op |-> "none", key |-> 0, val |-> <<>>, ttl |-> 0, err |-> "nil",
          now |-> 0, expire |-> 0, existed |-> FALSE, info |-> NoClean,
          last |-> NoHist, afterDel |-> "no", name |-> <<>>, owner |-> <<>>]

AfterDel(h) ==
    IF ret.op = "Del" /\ ret.key = h
    THEN (IF ret.existed THEN "removed" ELSE "absent")
    ELSE "no"

\* The number of overwrites whose old header is still counted in size.
Overwrites(s) == (s.size - EntryBytes(s)) \div HeaderLen

\* The calling goroutines and the shard indexes a storage can have.
Threads == {1, 2}
ShardIds == {0, 1}

\* An RWMutex nobody holds: writer is the thread holding it exclusively
\* (0 for none), readers the threads holding it shared.
Free == [writer |-> 0, readers |-> {}]

NoEntry == [expire |-> 0, worth |-> 0, payload |-> <<>>]

\* A thread outside any call.  In a call: op, key (the hash), data, ttl are
\* the arguments; now is the second its clock reads give; snap is the shard
\* as it was when the thread got the mutex; ok, e are the locals of the map
\* lookup (e later the entry to store); val, rttl, err, size the results.
Idle == [pc |-> "idle", op |-> "none", key |-> 0, data |-> <<>>, ttl |-> 0,
         now |-> 0, snap |-> NewShard(0, 0, 0, 0), ok |-> FALSE, e |-> NoEntry,
         val |-> <<>>, rttl |-> 0, err |-> "nil", size |-> 0]

InitOf(scenarios) ==
    /\ thr = [t \in Threads |-> Idle]
    /\ mutex = [i \in ShardIds |-> Free]
    /\ calls = 0
    /\ phase = "new"
    /\ \E sc \in scenarios : args = sc.args /\ env = sc.env
    /\ shards = EmptyMap
    /\ shardMask = 0
    /\ clock = 1
    /\ ret = NoRet
    /\ hist = [h \in Hashes |-> NoHist]

Init == InitOf(Scenarios)

\* NewLFUStorage / NewLRUStorage: maxSize / numShards panics for numShards = 0.
NewStorage ==
    /\ phase = "new"
    /\ IF args.numShards = 0
       THEN /\ phase' = "panic"
            /\ ret' = [NoRet EXCEPT !.op = "New", !.err = "panic"]
            /\ UNCHANGED <<shards, shardMask>>
       ELSE LET maxShardSize == GoDiv(args.maxSize, args.numShards)
                critShardSize == GoDiv(args.maxCritSize, args.numShards)
            IN  /\ shards' = [i \in 0 .. args.numShards - 1 |->
                                NewShard(maxShardSize, critShardSize,
                                         args.maxCleanDepth,
                                         IF args.policy = "LRU" THEN clock ELSE 0)]
                /\ shardMask' = args.numShards % Word
                /\ phase' = "ready"
                /\ ret' = [NoRet EXCEPT !.op = "New"]
    /\ UNCHANGED <<args, env, clock, hist, cvars>>

Set(key, data, ttl) ==
    /\ phase = "ready"
    /\ LET h == getKey(key)
           i == getShard(h)
       IN  /\ h \in DOMAIN shards[i].data => Overwrites(shards[i]) < MaxOverwrites
           /\ \E o \in ShardSet(args.policy, shards[i], h, data, ttl, clock) :
                /\ shards' = [shards EXCEPT ![i] = o.s]
                /\ phase' = IF o.info.panic THEN "panic" ELSE "ready"
                /\ ret' = [NoRet EXCEPT !.op = "Set", !.key = h,
                                        !.name = key, !.owner = hist[h].name,
                                        !.err = IF o.info.panic THEN "panic" ELSE "nil",
                                        !.existed = h \in DOMAIN shards[i].data,
                                        !.info = o.info]
                /\ hist' = [x \in Hashes |->
                              IF x = h /\ ~o.info.panic
                              THEN [intact |-> TRUE, v |-> data, at |-> clock,
                                    ttl |-> ttl, name |-> key]
                              ELSE IF x \in o.info.evicted THEN NoHist
                              ELSE hist[x]]
    /\ UNCHANGED <<args, env, shardMask, clock, cvars>>

\* A lookup that found the entry expired removed it.
HistAfterGet(h, s) ==
    IF h \in DOMAIN s.data THEN hist ELSE [hist EXCEPT ![h] = NoHist]

\* GetWithTTL reads the clock a second time after unlocking (now2).
GetWithTTL(key, now2) ==
    /\ phase = "ready"
    /\ now2 <= MaxTime
    /\ LET h == getKey(key)
           i == getShard(h)
           o == ShardGetWithTTL(args.policy, shards[i], h, clock, now2)
       IN  /\ o.err = "nil" /\ args.policy = "LFU"
                => shards[i].data[h].worth < MaxWorth
           /\ o.err # "nil" => now2 = clock
           /\ shards' = [shards EXCEPT ![i] = o.s]
           /\ ret' = [NoRet EXCEPT !.op = "GetWithTTL", !.key = h,
                                   !.name = key, !.owner = hist[h].name,
                                   !.val = o.val, !.ttl = o.ttl, !.err = o.err,
                                   !.now = clock, !.expire = o.expire,
                                   !.existed = h \in DOMAIN shards[i].data,
                                   !.last = hist[h], !.afterDel = AfterDel(h)]
           /\ hist' = HistAfterGet(h, shards'[i])
           /\ clock' = now2
    /\ UNCHANGED <<phase, args, env, shardMask, cvars>>

Get(key) ==
    /\ phase = "ready"
    /\ LET h == getKey(key)
           i == getShard(h)
           o == ShardGetWithTTL(args.policy, shards[i], h, clock, clock)
       IN  /\ o.err = "nil" /\ args.policy = "LFU"
                => shards[i].data[h].worth < MaxWorth
           /\ shards' = [shards EXCEPT ![i] = o.s]
           /\ ret' = [NoRet EXCEPT !.op = "Get", !.key = h,
                                   !.name = key, !.owner = hist[h].name,
                                   !.val = o.val, !.err = o.err,
                                   !.now = clock, !.expire = o.expire,
                                   !.existed = h \in DOMAIN shards[i].data,
                                   !.last = hist[h], !.afterDel = AfterDel(h)]
           /\ hist' = HistAfterGet(h, shards'[i])
    /\ UNCHANGED <<phase, args, env, shardMask, clock, cvars>>

Del(key) ==
    /\ phase = "ready"
    /\ LET h == getKey(key)
           i == getShard(h)
       IN  /\ shards' = [shards EXCEPT ![i] = ShardDel(args.policy, shards[i], h)]
           /\ ret' = [NoRet EXCEPT !.op = "Del", !.key = h,
                                   !.name = key, !.owner = hist[h].name,
                                   !.existed = h \in DOMAIN shards[i].data]
           /\ hist' = [hist EXCEPT ![h] = NoHist]
    /\ UNCHANGED <<phase, args, env, shardMask, clock, cvars>>

Clear ==
    /\ phase = "ready"
    /\ shards' = [i \in DOMAIN shards |-> ShardClear(args.policy, shards[i], clock)]
    /\ ret' = [NoRet EXCEPT !.op = "Clear"]
    /\ hist' = [h \in Hashes |-> NoHist]
    /\ UNCHANGED <<phase, args, env, shardMask, clock, cvars>>

\* One second passes.
Tick ==
    /\ phase = "ready"
    /\ clock < MaxTime
    /\ clock' = clock + 1
    /\ UNCHANGED <<phase, args, env, shards, shardMask, ret, hist, cvars>>

Next ==
    \/ NewStorage
    \/ \E key \in env.keys, data \in env.payloads, ttl \in env.ttls : Set(key, data, ttl)
    \/ \E key \in env.keys, now2 \in {clock, clock + 1} : GetWithTTL(key, now2)
    \/ \E key \in env.keys : Get(key)
    \/ \E key \in env.keys : Del(key)
    \/ Clear
    \/ Tick

Spec == Init /\ [][Next]_vars

\* One shard without probe budget (maxCleanDepth = 0), four keys, a short
\* and a long payload: the shard can be far above critSize when a pass
\* starts.
CleanScenarios ==
    {[args |-> Args(p, 1, 30, 35, 0), env |-> Env(K4, {<<1>>, BigPayload}, {1})]
        : p \in Policies}

\* Set and Get only, within one second: the calls that fill a shard and
\* give its entries worth.
NextClean ==
    \/ NewStorage
    \/ \E key \in env.keys, data \in env.payloads, ttl \in env.ttls : Set(key, data, ttl)
    \/ \E key \in env.keys : Get(key)

SpecClean == InitOf(CleanScenarios) /\ [][NextClean]_vars

\* One shard with a probe budget of 1 or 2 that only receives Sets of keys
\* never set before, all payloads of one length: critSize at, above and
\* below maxSize + entry length.
FreshScenarios ==
    {[args |-> Args(p, 1, 34, c, n), env |-> Env(K5, P1, {0, 1, 2})]
        : p \in Policies, c \in {40, 51, 52}, n \in {1, 2}}
    \cup {[args |-> Args(p, 1, 34, 52, 1), env |-> Env(K5, {<<2, 3>>, <<3, 2>>}, {1})]
        : p \in Policies}

\* the keys in the order they are set
FreshKeys == <<<<1>>, <<2>>, <<3>>, <<4>>, <<5>>>>

\* how many of them have been set
Inserted ==
    IF ret.op = "Set"
    THEN CHOOSE n \in 1 .. Len(FreshKeys) : getKey(FreshKeys[n]) = ret.key
    ELSE 0

NextFresh ==
    \/ NewStorage
    \/ \E data \in env.payloads, ttl \in env.ttls :
          /\ Inserted < Len(FreshKeys)
          /\ Set(FreshKeys[Inserted + 1], data, ttl)
    \/ Tick

SpecFresh == InitOf(FreshScenarios) /\ [][NextFresh]_vars

(***************************************************************************)
(* Properties.                                                             *)
(***************************************************************************)
Lookups == {"Get", "GetWithTTL"}

\* the shard the last call worked on
RetShard == shards[getShard(ret.key)]

Returned(op) == ret.op = op /\ ret.err # "panic"

\* the entry the last Set stored
RetEntry == RetShard.data[ret.key]

FreshSet == Returned("Set") /\ ~ret.existed

\* C1: in a bounded (LFU or LRU) shard, after every completed Set (fresh or
\* overwrite), Get, GetWithTTL, Del and Clear, size equals the sum of the
\* lengths (payload + 16) of the entries in the map.
C1_SizeIsEntryBytes ==
    phase = "ready" => \A i \in DOMAIN shards : shards[i].size = EntryBytes(shards[i])

\* C2: in a bounded (LFU or LRU) shard, after every completed operation (Set
\* fresh or overwrite, lookups that hit, miss or expire lazily, Del, Clear,
\* clean-pass eviction), totalWorth equals the sum of the worth fields of the
\* entries in the map.
C2_TotalWorthIsSum ==
    phase = "ready" =>
        \A i \in DOMAIN shards : shards[i].totalWorth = EntryWorth(shards[i])

\* C3 as stated: with maxSize > 0, after any Set returns, size <= critSize or
\* the map holds exactly one entry.
C3_WithinCritOrSingle ==
    Returned("Set") /\ RetShard.maxSize > 0
        => \/ RetShard.size <= RetShard.critSize
           \/ Cardinality(DOMAIN RetShard.data) = 1

\* C3 amended: with 0 < maxSize <= critSize, after a Set of a fresh key
\* returns, size <= critSize + the length of the entry just stored, unless
\* the clean pass of that Set ended at iter = -2 or with no entry left to
\* visit.
C3_FreshSetWithinCritPlusEntry ==
    FreshSet /\ 0 < RetShard.maxSize /\ RetShard.maxSize <= RetShard.critSize
        => \/ RetShard.size <= RetShard.critSize + len(RetEntry)
           \/ ret.info.ran /\ (ret.info.iter = -2 \/ ret.info.scanned)

\* C3 witness: a fresh Set whose clean pass ran and stopped with entries left
\* returned with size > critSize and more than one entry in the map.
C3_Witness ==
    /\ FreshSet
    /\ 0 < RetShard.maxSize /\ RetShard.maxSize <= RetShard.critSize
    /\ ret.info.ran /\ ~ret.info.scanned
    /\ RetShard.size > RetShard.critSize
    /\ Cardinality(DOMAIN RetShard.data) >= 2

\* C4 as stated: with maxSize > 0, whenever size > critSize right after a Set
\* returns, that Set ran a clean pass whose budget was exhausted (iter <= 0).
C4_OverCritOnlyAfterExhaustedPass ==
    Returned("Set") /\ RetShard.maxSize > 0 /\ RetShard.size > RetShard.critSize
        => ret.info.ran /\ ret.info.iter <= 0

\* C4 amended: with maxSize > 0, whenever a Set of a fresh key returns with
\* size - (length of the entry just stored) > maxSize, that Set ran a clean
\* pass that ended with its budget exhausted (iter <= 0) or with no entry
\* left to visit; a fresh Set that ran no pass, or whose pass stopped with
\* budget and entries left, returns with size <= maxSize + that length.
C4_OverMaxOnlyAfterExhaustedPass ==
    FreshSet /\ RetShard.maxSize > 0
             /\ RetShard.size - len(RetEntry) > RetShard.maxSize
        => ret.info.ran /\ (ret.info.iter <= 0 \/ ret.info.scanned)

\* C4 witness: a fresh Set returned above maxSize + the new entry after a
\* clean pass that used up its budget and stopped with entries left.
C4_Witness ==
    /\ FreshSet
    /\ RetShard.maxSize > 0
    /\ RetShard.size - len(RetEntry) > RetShard.maxSize
    /\ ret.info.ran /\ ret.info.iter <= 0 /\ ~ret.info.scanned
    /\ ret.info.visited > 0

\* C5: on a cache built with numShards >= 1, no Set, Del or Clear aborts.
C5_NoAbort == args.numShards >= 1 => phase # "panic"

\* C6: a constructor called with numShards = 0 does not divide by zero, at
\* construction or later.
C6_ZeroShardsNoPanic == args.numShards = 0 => phase # "panic"

\* C7: Set(k, v, ttl) with ttl >= 1, then Get(k) at a second before
\* (set second + ttl), with no Del(k), Clear, overwrite or eviction of k in
\* between, returns exactly v.
C7_LiveEntryReturned ==
    /\ ret.op = "Get"
    /\ ret.last.intact
    /\ ret.last.ttl >= 1
    /\ ret.now < ret.last.at + ret.last.ttl
    => ret.err = "nil" /\ ret.val = ret.last.v

\* C8: a lookup returns a payload only for an entry whose expire second is
\* after the second of the lookup; for an entry with expire <= now it returns
\* Missing and no payload; Set(k, v, 0) then Get(k) returns Missing.
C8_ExpiredNeverReturned ==
    ret.op \in Lookups =>
        /\ ret.err = "nil" => ret.existed /\ ret.expire > ret.now
        /\ ret.existed /\ ret.expire <= ret.now
              => ret.err = "ErrMissing" /\ ret.val = <<>>
        /\ ret.last.intact /\ ret.last.ttl = 0 => ret.err = "ErrMissing"

\* C8 witness: a Get found the entry of a Set with ttl 0 still in the map and
\* returned Missing.
C8_Witness ==
    /\ ret.op = "Get"
    /\ ret.existed
    /\ ret.last.intact /\ ret.last.ttl = 0
    /\ ret.expire <= ret.now
    /\ ret.err = "ErrMissing"

\* C9: after Set(k, v, ttl) and then Del(k), with no Set(k) in between,
\* Get(k) returns Missing: a lookup of k whose last Set(k) was followed by a
\* Del(k) (right before the lookup or earlier), or that no Set(k) preceded,
\* returns Missing and no payload.
C9_DelThenGetMissing ==
    ret.op \in Lookups /\ (ret.afterDel # "no" \/ ~ret.last.intact)
        => ret.err = "ErrMissing" /\ ret.val = <<>>

\* C9 witness: a Get right after a Del that removed the key returned Missing.
C9_Witness ==
    /\ ret.op = "Get"
    /\ ret.afterDel = "removed"
    /\ ret.err = "ErrMissing"

\* C10: Del(k) of a key that is not in the shard returns success and leaves
\* the shards (map, size, totalWorth) unchanged; a second Del(k) changes
\* nothing after the first.
C10_DelAbsentIsNoOp ==
    [][ \A key \in env.keys :
          Del(key) =>
              LET h == getKey(key)
                  i == getShard(h)
              IN  /\ ret'.err = "nil"
                  /\ h \notin DOMAIN shards[i].data => shards' = shards
                  /\ ShardDel(args.policy, shards'[i], h) = shards'[i]
      ]_vars

\* C10 witness: a Del of a key that was not in a non-empty shard returned.
C10_Witness ==
    /\ ret.op = "Del"
    /\ ~ret.existed
    /\ ret.err = "nil"
    /\ DOMAIN RetShard.data # {}

(***************************************************************************)
(* Steps, told apart by the call the next state records.                   *)
(***************************************************************************)
\* a step of Set, of Del
SetStep == phase = "ready" /\ ret'.op = "Set" /\ clock' = clock

DelStep == phase = "ready" /\ ret'.op = "Del" /\ clock' = clock

\* a step of Get or GetWithTTL (Tick leaves ret and shards as they are)
LookupStep ==
    phase = "ready" /\ ret'.op \in Lookups /\ (ret' # ret \/ shards' # shards)

\* the shard index of the key of the step's call
StepShard == getShard(ret'.key)

\* C11: Set(k, v1, ttl); Set(k, v2, ttl'); Get(k) before expiry returns v2,
\* and an overwriting Set leaves the worth of k's entry as it was: the entry
\* after an overwrite holds the new payload, the expire second now + ttl'
\* (uint64) and the old worth, and a lookup that finds k's entry before its
\* expire second returns the payload of the last Set(k).
C11_OverwriteKeepsWorth ==
    [][ /\ SetStep /\ ret'.existed =>
              LET h == ret'.key
                  old == shards[StepShard].data[h]
                  new == shards'[StepShard].data[h]
              IN  /\ new.worth = old.worth
                  /\ new.payload = hist'[h].v
                  /\ new.expire = (clock + hist'[h].ttl) % Word
                  /\ shards'[StepShard].totalWorth = shards[StepShard].totalWorth
        /\ LookupStep /\ ret'.existed /\ ret'.expire > ret'.now =>
              ret'.err = "nil" /\ ret'.val = ret'.last.v
      ]_vars

\* C11 witness: an overwriting Set returned and the entry it wrote has the
\* positive worth and a payload other than the shortest one.
C11_Witness ==
    /\ Returned("Set")
    /\ ret.existed
    /\ RetEntry.worth > 0
    /\ RetEntry.payload = hist[ret.key].v

C13_LazyExpiryRemoves ==
    [][ LookupStep /\ ret'.existed /\ ret'.expire <= ret'.now =>
          LET h == ret'.key
              i == StepShard
              e == shards[i].data[h]
          IN  /\ ret'.err = "ErrMissing" /\ ret'.val = <<>>
              /\ shards' = [shards EXCEPT ![i] =
                              [@ EXCEPT !.data = MapDelete(@, h),
                                        !.size = @ - len(e),
                                        !.totalWorth = sub(args.policy, @, e.worth)]]
      ]_vars

\* C13 witness: a lookup found its key expired in a shard that holds another
\* entry, and the key is gone.
C13_Witness ==
    /\ ret.op \in Lookups
    /\ ret.existed /\ ret.expire <= ret.now
    /\ ret.err = "ErrMissing"
    /\ ret.key \notin DOMAIN RetShard.data
    /\ DOMAIN RetShard.data # {}

\* the entries of the maps other than the one of key h
Others(ss, h) ==
    [i \in DOMAIN ss |-> [k \in DOMAIN ss[i].data \ {h} |-> ss[i].data[k]]]

C20_EvictsOnlyAboveMax ==
    [][ SetStep /\ ~ret'.existed =>
          LET s == shards[StepShard]
          IN  /\ s.maxSize <= 0 \/ s.size <= s.maxSize =>
                    /\ ret'.info.evicted = {}
                    /\ DOMAIN s.data \subseteq DOMAIN shards'[StepShard].data
              /\ ~ret'.info.late
              /\ ret'.info.evicted # {} =>
                    \E k \in ret'.info.evicted :
                        shards'[StepShard].size
                          - len(shards'[StepShard].data[ret'.key])
                          + len(s.data[k]) > s.maxSize
      ]_vars

\* C20 witness: a pass stopped by size <= maxSize after an eviction while
\* entries it had not visited were left.
C20_Witness ==
    /\ FreshSet
    /\ ret.info.evicted # {}
    /\ ~ret.info.scanned
    /\ ret.info.iter > 0
    /\ Cardinality(DOMAIN RetShard.data) >= 2

\* size when the clean pass of the last Set had ended, before the insertion
CleanedSize == RetShard.size - len(RetEntry)

\* C17 as stated: with maxCleanDepth = 0 every Set of a fresh key that
\* starts with size > maxSize deletes exactly two entries.
C17_ExactlyTwoDeleted ==
    FreshSet /\ args.maxCleanDepth = 0 /\ ret.info.ran
        => Cardinality(ret.info.evicted) = 2

\* C17: with maxCleanDepth = 0 a Set of a fresh key that starts with
\* size > maxSize deletes at most two entries before inserting; it deletes
\* every entry it visits, whatever its worth; it stops after two (iter = -2),
\* and it deletes fewer than two only if it stopped because size had dropped
\* to <= maxSize or was < critSize, or because no entry was left.
C17_AtMostTwoDeleted ==
    FreshSet /\ args.maxCleanDepth = 0 /\ ret.info.ran =>
        LET n == Cardinality(ret.info.evicted)
        IN  /\ n <= 2
            /\ ret.info.visited = n
            /\ ret.info.iter = -n
            /\ n < 2 => \/ CleanedSize <= RetShard.maxSize
                         \/ CleanedSize < RetShard.critSize
                         \/ ret.info.scanned

\* C17 witness: a pass without budget deleted two entries, one of them
\* unexpired and above the threshold, and stopped although the shard was
\* still above maxSize and critSize and held another entry.
C17_Witness ==
    /\ FreshSet /\ args.maxCleanDepth = 0
    /\ Cardinality(ret.info.evicted) = 2
    /\ ret.info.forced >= 1
    /\ CleanedSize > RetShard.maxSize
    /\ CleanedSize >= RetShard.critSize
    /\ Cardinality(DOMAIN RetShard.data) >= 2

\* the entry length of the workload's payloads, which all have one length
EntryLen == Len(CHOOSE d \in env.payloads : TRUE) + HeaderLen

\* C18: in a single bounded shard with maxCleanDepth >= 1 that has only
\* received Sets of distinct fresh keys with payloads of one length L, if
\* maxSize + L + 16 <= critSize then size <= critSize after every Set (in
\* fact size <= maxSize + L + 16), whatever order the clean passes visited
\* the entries in.
C18_FreshSetsStayWithinCrit ==
    /\ phase = "ready"
    /\ args.numShards = 1 /\ args.maxCleanDepth >= 1
    /\ \A d \in env.payloads : Len(d) + HeaderLen = EntryLen
    /\ shards[0].maxSize > 0
    /\ shards[0].maxSize + EntryLen <= shards[0].critSize
    => /\ shards[0].size <= shards[0].critSize
       /\ shards[0].size <= shards[0].maxSize + EntryLen
       /\ shards[0].size = EntryBytes(shards[0])

\* C18 witness: the fourth or a later fresh Set ran a pass that evicted an
\* entry and left the shard exactly at critSize = maxSize + L + 16.
C18_Witness ==
    /\ FreshSet
    /\ Inserted >= 4
    /\ args.maxCleanDepth >= 1
    /\ ret.info.evicted # {}
    /\ RetShard.maxSize + EntryLen = RetShard.critSize
    /\ RetShard.size = RetShard.critSize

(***************************************************************************)
(* Concurrent callers.  A call is a sequence of steps, one per statement   *)
(* (or group of statements on the same field) of the shard method; the     *)
(* steps of different threads interleave freely, and only Lock and RLock   *)
(* wait.  All clock reads of the locked part of one call give the same     *)
(* second (now); GetWithTTL reads the clock again after Unlock.            *)
(***************************************************************************)
\* the calls that loop over all shards; they keep the loop index in key
ShardLoops == {"GetSize", "Clear"}

\* the shard a thread's call works on
Sh(t) == IF thr[t].op \in ShardLoops THEN thr[t].key ELSE getShard(thr[t].key)

\* A faulty Lock that does not wait.
CanLockAlways(m) == TRUE

\* sync.RWMutex: Lock waits for the writer and all readers to leave,
\* RLock for the writer.
CanLock(m) == m.writer = 0 /\ m.readers = {}

CanRLock(m) == m.writer = 0

Goto(t, pc) == thr' = [thr EXCEPT ![t].pc = pc]

\* a call starts
Call(t, op, key, data, ttl) ==
    /\ phase = "ready"
    /\ thr[t].pc = "idle"
    /\ calls < MaxCalls
    /\ thr' = [thr EXCEPT ![t] =
                 [Idle EXCEPT !.pc = IF op = "GetSize" THEN "rlock"
                                    ELSE IF op = "Clear" THEN "cleardata"
                                    ELSE "lock",
                              !.op = op,
                              !.key = IF op \in ShardLoops THEN 0 ELSE getKey(key),
                              !.data = data, !.ttl = ttl]]
    /\ calls' = calls + 1
    /\ UNCHANGED <<phase, args, env, shards, shardMask, clock, ret, hist, mutex>>

\* s.Lock()
Lock(t) ==
    /\ thr[t].pc = "lock"
    /\ CanLock(mutex[Sh(t)])
    /\ mutex' = [mutex EXCEPT ![Sh(t)].writer = t]
    /\ thr' = [thr EXCEPT ![t].pc = "lookup", ![t].now = clock,
                          ![t].snap = shards[Sh(t)]]
    /\ UNCHANGED <<phase, args, env, shards, shardMask, clock, ret, hist, calls>>

\* e, ok := s.data[key]
Lookup(t) ==
    /\ thr[t].pc = "lookup"
    /\ LET d == shards[Sh(t)].data
           ok == thr[t].key \in DOMAIN d
           pc == IF thr[t].op = "Set" THEN "adjust"
                 ELSE IF ~ok THEN "unlock"
                 ELSE IF thr[t].op = "Del" THEN "delete"
                 ELSE "adjust"
       IN  thr' = [thr EXCEPT ![t].pc = pc, ![t].ok = ok,
                              ![t].e = IF ok THEN d[thr[t].key] ELSE NoEntry,
                              ![t].err = IF ~ok /\ thr[t].op \in Lookups
                                         THEN "ErrMissing" ELSE "nil"]
    /\ UNCHANGED <<phase, args, env, shards, shardMask, clock, ret, hist, mutex, calls>>

\* Set: s.size -= len(d) for a key found, s.clean() for a key not found; a
\* panic inside clean unwinds the call with the mutex locked.
SetAdjust(t) ==
    /\ thr[t].pc = "adjust" /\ thr[t].op = "Set"
    /\ IF thr[t].ok
       THEN /\ shards' = [shards EXCEPT ![Sh(t)].size = @ - Len(thr[t].e.payload)]
            /\ Goto(t, "insert")
       ELSE \E c \in clean(args.policy, shards[Sh(t)], thr[t].now) :
                /\ shards' = [shards EXCEPT ![Sh(t)] = c.s]
                /\ Goto(t, IF c.info.panic THEN "panicked" ELSE "insert")
    /\ UNCHANGED <<phase, args, env, shardMask, clock, ret, hist, mutex, calls>>

\* Set: d := s.wrapData(data, ttl, worth); s.size += len(d)
SetInsert(t) ==
    /\ thr[t].pc = "insert"
    /\ LET d == wrapData(thr[t].data, thr[t].ttl, thr[t].e.worth, thr[t].now)
       IN  /\ shards' = [shards EXCEPT ![Sh(t)].size = @ + len(d)]
           /\ thr' = [thr EXCEPT ![t].pc = "store", ![t].e = d]
    /\ UNCHANGED <<phase, args, env, shardMask, clock, ret, hist, mutex, calls>>

\* GetWithTTL on a key found: the updates of totalWorth and size, and the
\* new worth of a live entry.
GetAdjust(t) ==
    /\ thr[t].pc = "adjust" /\ thr[t].op \in Lookups
    /\ LET e == thr[t].e
           s == shards[Sh(t)]
           expired == isExpired(e.expire, thr[t].now)
           e2 == IF args.policy = "LFU" THEN incHit(e) ELSE setTs(e, s.now, thr[t].now)
           tw == IF args.policy = "LFU"
                 THEN (IF expired THEN s.totalWorth - e.worth ELSE s.totalWorth + 1)
                 ELSE (IF expired THEN fl(s.totalWorth - e.worth)
                       ELSE fl(fl(s.totalWorth - e.worth) + e2.worth))
       IN  /\ shards' = [shards EXCEPT ![Sh(t)].totalWorth = tw,
                                       ![Sh(t)].size = IF expired THEN @ - len(e) ELSE @]
           /\ thr' = [thr EXCEPT ![t].pc = IF expired THEN "delete" ELSE "store",
                                 ![t].e = IF expired THEN e ELSE e2,
                                 ![t].val = IF expired THEN <<>> ELSE e.payload,
                                 ![t].err = IF expired THEN "ErrMissing" ELSE "nil"]
    /\ UNCHANGED <<phase, args, env, shardMask, clock, ret, hist, mutex, calls>>

\* s.data[key] = d
Store(t) ==
    /\ thr[t].pc = "store"
    /\ shards' = [shards EXCEPT ![Sh(t)].data = MapPut(@, thr[t].key, thr[t].e)]
    /\ Goto(t, "unlock")
    /\ UNCHANGED <<phase, args, env, shardMask, clock, ret, hist, mutex, calls>>

\* delete(s.data, key)
Delete(t) ==
    /\ thr[t].pc = "delete"
    /\ shards' = [shards EXCEPT ![Sh(t)].data = MapDelete(@, thr[t].key)]
    /\ Goto(t, IF thr[t].op = "Del" THEN "counters" ELSE "unlock")
    /\ UNCHANGED <<phase, args, env, shardMask, clock, ret, hist, mutex, calls>>

\* Del: s.totalWorth -= worth; s.size -= len(data)
DelCounters(t) ==
    /\ thr[t].pc = "counters"
    /\ shards' = [shards EXCEPT
                    ![Sh(t)].totalWorth = sub(args.policy, @, thr[t].e.worth),
                    ![Sh(t)].size = @ - len(thr[t].e)]
    /\ Goto(t, "unlock")
    /\ UNCHANGED <<phase, args, env, shardMask, clock, ret, hist, mutex, calls>>

\* s.Unlock()
Unlock(t) ==
    /\ thr[t].pc = "unlock"
    /\ mutex' = [mutex EXCEPT ![Sh(t)].writer = 0]
    /\ Goto(t, IF thr[t].op \in Lookups /\ thr[t].err = "nil" THEN "ttl" ELSE "return")
    /\ UNCHANGED <<phase, args, env, shards, shardMask, clock, ret, hist, calls>>

\* GetWithTTL: ttl := expire - uint64(time.Now().Unix()), after Unlock
ReadTTL(t) ==
    /\ thr[t].pc = "ttl"
    /\ thr' = [thr EXCEPT ![t].pc = "return",
                          ![t].rttl = (thr[t].snap.data[thr[t].key].expire - clock) % Word]
    /\ UNCHANGED <<phase, args, env, shards, shardMask, clock, ret, hist, mutex, calls>>

\* the call returns
Return(t) ==
    /\ thr[t].pc = "return"
    /\ thr' = [thr EXCEPT ![t] = Idle]
    /\ UNCHANGED <<phase, args, env, shards, shardMask, clock, ret, hist, mutex, calls>>

\* GetSize: s.RLock() of the next shard
RLock(t) ==
    /\ thr[t].pc = "rlock"
    /\ CanRLock(mutex[Sh(t)])
    /\ mutex' = [mutex EXCEPT ![Sh(t)].readers = @ \cup {t}]
    /\ Goto(t, "read")
    /\ UNCHANGED <<phase, args, env, shards, shardMask, clock, ret, hist, calls>>

\* GetSize: size := s.size
ReadSize(t) ==
    /\ thr[t].pc = "read"
    /\ thr' = [thr EXCEPT ![t].pc = "runlock",
                          ![t].size = @ + shards[Sh(t)].size]
    /\ UNCHANGED <<phase, args, env, shards, shardMask, clock, ret, hist, mutex, calls>>

\* GetSize: s.RUnlock(), then the next shard or the return
RUnlock(t) ==
    /\ thr[t].pc = "runlock"
    /\ mutex' = [mutex EXCEPT ![Sh(t)].readers = @ \ {t}]
    /\ thr' = IF thr[t].key + 1 < args.numShards
              THEN [thr EXCEPT ![t].pc = "rlock", ![t].key = @ + 1]
              ELSE [thr EXCEPT ![t].pc = "return"]
    /\ UNCHANGED <<phase, args, env, shards, shardMask, clock, ret, hist, calls>>

\* One shard of at most 15 bytes, and two such shards, one key each.
ConcScenarios ==
    {[args |-> Args(p, 1, 15, 16, 1), env |-> Env(K2, P1, {1})] : p \in Policies}
    \cup {[args |-> Args("LFU", 2, 30, 32, 1), env |-> Env(K2, P1, {0})]}

NextConc ==
    \/ NewStorage
    \/ \E t \in Threads, key \in env.keys, data \in env.payloads, ttl \in env.ttls :
          Call(t, "Set", key, data, ttl)
    \/ \E t \in Threads, key \in env.keys, op \in Lookups \cup {"Del"} :
          Call(t, op, key, <<>>, 0)
    \/ \E t \in Threads : Call(t, "GetSize", <<>>, <<>>, 0)
    \/ \E t \in Threads : Lock(t)
    \/ \E t \in Threads : Lookup(t)
    \/ \E t \in Threads : SetAdjust(t)
    \/ \E t \in Threads : SetInsert(t)
    \/ \E t \in Threads : GetAdjust(t)
    \/ \E t \in Threads : Store(t)
    \/ \E t \in Threads : Delete(t)
    \/ \E t \in Threads : DelCounters(t)
    \/ \E t \in Threads : Unlock(t)
    \/ \E t \in Threads : ReadTTL(t)
    \/ \E t \in Threads : Return(t)
    \/ \E t \in Threads : RLock(t)
    \/ \E t \in Threads : ReadSize(t)
    \/ \E t \in Threads : RUnlock(t)
    \/ Tick

SpecConc == InitOf(ConcScenarios) /\ [][NextConc]_vars

\* Clear: s.data = make(map[uint64][]byte), without locking
ClearData(t) ==
    /\ thr[t].pc = "cleardata"
    /\ shards' = [shards EXCEPT ![Sh(t)].data = EmptyMap]
    /\ Goto(t, "clearworth")
    /\ UNCHANGED <<phase, args, env, shardMask, clock, ret, hist, mutex, calls>>

\* Clear: s.totalWorth = 0
ClearWorth(t) ==
    /\ thr[t].pc = "clearworth"
    /\ shards' = [shards EXCEPT ![Sh(t)].totalWorth = 0]
    /\ Goto(t, "clearsize")
    /\ UNCHANGED <<phase, args, env, shardMask, clock, ret, hist, mutex, calls>>

\* Clear: s.size = 0; the LFU shard is done with it
ClearSize(t) ==
    /\ thr[t].pc = "clearsize"
    /\ shards' = [shards EXCEPT ![Sh(t)].size = 0]
    /\ thr' = IF args.policy = "LRU" THEN [thr EXCEPT ![t].pc = "clearnow"]
              ELSE IF thr[t].key + 1 < args.numShards
              THEN [thr EXCEPT ![t].pc = "cleardata", ![t].key = @ + 1]
              ELSE [thr EXCEPT ![t].pc = "return"]
    /\ UNCHANGED <<phase, args, env, shardMask, clock, ret, hist, mutex, calls>>

\* LRU Clear: s.now = time.Now()
ClearNow(t) ==
    /\ thr[t].pc = "clearnow"
    /\ shards' = [shards EXCEPT ![Sh(t)].now = clock]
    /\ thr' = IF thr[t].key + 1 < args.numShards
              THEN [thr EXCEPT ![t].pc = "cleardata", ![t].key = @ + 1]
              ELSE [thr EXCEPT ![t].pc = "return"]
    /\ UNCHANGED <<phase, args, env, shardMask, clock, ret, hist, mutex, calls>>

\* One shard and one key, and two LFU shards: Clear next to the other calls.
ClearScenarios ==
    {[args |-> Args(p, 1, 30, 35, 1), env |-> Env(K1, P1, {1})] : p \in Policies}
    \cup {[args |-> Args("LFU", 2, 30, 32, 1), env |-> Env(K2, P1, {1})]}

NextClear ==
    \/ NextConc
    \/ \E t \in Threads : Call(t, "Clear", <<>>, <<>>, 0)
    \/ \E t \in Threads : ClearData(t)
    \/ \E t \in Threads : ClearWorth(t)
    \/ \E t \in Threads : ClearSize(t)
    \/ \E t \in Threads : ClearNow(t)

SpecClear == InitOf(ClearScenarios) /\ [][NextClear]_vars

\* the positions inside Clear
ClearPcs == {"cleardata", "clearworth", "clearsize", "clearnow"}

\* the positions between s.Lock() and s.Unlock()
LockedPcs == {"lookup", "adjust", "insert", "store", "delete", "counters",
              "unlock", "panicked"}

\* what the call of thread t yields when run alone on the shard as it was
\* when t got the mutex
SeqSet(t) ==
    ShardSet(args.policy, thr[t].snap, thr[t].key, thr[t].data, thr[t].ttl,
             thr[t].now)

SeqGet(t, now2) ==
    ShardGetWithTTL(args.policy, thr[t].snap, thr[t].key, thr[t].now, now2)

SeqDel(t) == ShardDel(args.policy, thr[t].snap, thr[t].key)

\* C14: Set, Get, GetWithTTL and Del of several threads on one shard each
\* read and write the map, size and totalWorth inside a single hold of the
\* shard mutex: a thread between Lock and Unlock is the one holder of the
\* mutex; when it is about to unlock (or has panicked), the shard is what
\* its call alone makes of the shard it found when it locked; and the call
\* returns what that sequential call returns.  The calls therefore take
\* effect one after the other, in the order in which they got the mutex.
C14_CallsAreAtomic ==
    \A t \in Threads :
        LET c == thr[t]
            s == shards[Sh(t)]
        IN  /\ c.pc \in LockedPcs => mutex[Sh(t)] = [writer |-> t, readers |-> {}]
            /\ c.pc = "lookup" => s = c.snap
            /\ c.pc = "unlock" /\ c.op = "Set" =>
                  \E o \in SeqSet(t) : ~o.info.panic /\ o.s = s
            /\ c.pc = "panicked" =>
                  \E o \in SeqSet(t) : o.info.panic /\ o.s = s
            /\ c.pc = "unlock" /\ c.op = "Del" => s = SeqDel(t)
            /\ c.pc = "unlock" /\ c.op \in Lookups =>
                  LET o == SeqGet(t, c.now)
                  IN  s = o.s /\ c.val = o.val /\ c.err = o.err
            /\ c.pc = "return" /\ c.op \in Lookups =>
                  \E now2 \in c.now .. clock :
                      LET o == SeqGet(t, now2)
                      IN  c.val = o.val /\ c.err = o.err /\ c.rttl = o.ttl

\* C14 witness: a Set that ran a clean pass and evicted another thread's
\* entry is about to unlock while the other thread waits for the mutex of
\* the same shard.
C14_Witness ==
    \E t \in Threads, u \in Threads :
        /\ t # u
        /\ thr[t].pc = "unlock" /\ thr[t].op = "Set" /\ ~thr[t].ok
        /\ DOMAIN thr[t].snap.data \ DOMAIN shards[Sh(t)].data # {}
        /\ thr[u].pc = "lock" /\ Sh(u) = Sh(t)

\* C16 as stated, its safety part: a thread holds at most one shard mutex,
\* only that of the shard its call works on and only inside the call: a
\* shard mutex is never held by a thread whose call has ended, by return or
\* by panic.
C16_MutexReleasedOnExit ==
    \A i \in ShardIds, t \in Threads :
        /\ mutex[i].writer = t =>
              thr[t].pc \in LockedPcs \ {"panicked"} /\ Sh(t) = i
        /\ t \in mutex[i].readers =>
              thr[t].pc \in {"read", "runlock"} /\ Sh(t) = i

\* every thread is outside any call
Quiet == \A t \in Threads : thr[t].pc = "idle"

\* C15 as stated: Clear runs under the exclusive shard mutex, so that with
\* Clear among the concurrent calls size never becomes negative and, when
\* all calls have finished, size is not below the bytes of the entries in
\* the map and the LFU totalWorth is the sum of their worths.
C15_ClearUnderMutex ==
    /\ \A t \in Threads :
          thr[t].pc \in ClearPcs => mutex[Sh(t)].writer = t
    /\ \A i \in DOMAIN shards :
          /\ shards[i].size >= 0
          /\ Quiet => shards[i].size >= EntryBytes(shards[i])
          /\ Quiet /\ args.policy = "LFU"
                => shards[i].totalWorth = EntryWorth(shards[i])

\* C15, the observable part alone: size is never negative.
C15_SizeNeverNegative == \A i \in DOMAIN shards : shards[i].size >= 0

(***************************************************************************)
(* The iterations of the clean pass of the last Set.                       *)
(***************************************************************************)
\* One shard with a probe budget of 1 and four keys: a pass can find three
\* entries, spend its budget on one above the threshold and go on without
\* budget.
PassScenarios ==
    {[args |-> Args(p, 1, 30, 35, 1), env |-> Env(K4, P1, {1})] : p \in Policies}

SpecPass == InitOf(PassScenarios) /\ [][NextClean]_vars

\* the iterations of the pass
PassLog == {ret.info.log[n] : n \in 1 .. Len(ret.info.log)}

\* the second in which the last Set ran
PassNow == hist[ret.key].at

\* worth <= threshold, the threshold being totalWorth / len(s.data) as they
\* were when the pass started: floor division for LFU, float64 for LRU
AtOrBelow(v) ==
    IF args.policy = "LFU"
    THEN v.e.worth <= ret.info.th[1] \div ret.info.th[2]
    ELSE leqQuotient(v.e.worth, ret.info.th[1], ret.info.th[2])

Expired(v) == v.e.expire <= PassNow

C22_ForcedOnlyAtCrit ==
    FreshSet /\ ret.info.ran =>
        /\ \A v \in PassLog :
              /\ v.iter <= 0 => v.size >= RetShard.critSize /\ v.gone
              /\ v.gone /\ ~AtOrBelow(v) /\ ~Expired(v)
                    => v.iter <= 0 /\ v.size >= RetShard.critSize
        /\ ret.info.iter <= 0 /\ CleanedSize < RetShard.critSize
              => \A v \in PassLog : v.iter >= ret.info.iter + 1

\* C22 witness: a pass force-evicted an entry above the threshold at
\* iter <= 0 and then stopped, entries left, because size had dropped below
\* critSize while still above maxSize.
C22_Witness ==
    /\ FreshSet
    /\ \E v \in PassLog :
          v.iter <= 0 /\ v.gone /\ ~AtOrBelow(v) /\ ~Expired(v)
    /\ ~ret.info.scanned
    /\ CleanedSize < RetShard.critSize
    /\ CleanedSize > RetShard.maxSize

\* One shard whose probe budget is negative from the start, four keys, a
\* short and a long payload.
DepthScenarios ==
    {[args |-> Args(p, 1, 30, 35, -3), env |-> Env(K4, {<<1>>, BigPayload}, {1})]
        : p \in Policies}

SpecDepth == InitOf(DepthScenarios) /\ [][NextClean]_vars

\* the entries a pass evicted although they were neither expired nor at or
\* below the threshold
ForcedLog == {v \in PassLog : v.gone /\ ~AtOrBelow(v) /\ ~Expired(v)}

\* C23 as stated: for every maxCleanDepth N the constructor accepts, a
\* clean pass force-evicts at most two entries and visits at most
\* max(N, 0) + 2 entries.
C23_ForcedAndVisitsCapped ==
    FreshSet /\ ret.info.ran =>
        /\ Cardinality(ForcedLog) <= 2
        /\ ret.info.visited
              <= (IF args.maxCleanDepth > 0 THEN args.maxCleanDepth ELSE 0) + 2

\* Set of a key that is not in the map
AbsentSet(key, data, ttl) ==
    /\ phase = "ready"
    /\ getKey(key) \notin DOMAIN shards[getShard(getKey(key))].data
    /\ Set(key, data, ttl)

\* The clock runs LateSeconds past MaxTime.
LateTick ==
    /\ phase = "ready"
    /\ clock >= MaxTime
    /\ clock < MaxTime + LateSeconds
    /\ clock' = clock + 1
    /\ UNCHANGED <<phase, args, env, shards, shardMask, ret, hist, cvars>>

\* One shard with a probe budget of 3, three keys, one payload length, a
\* ttl that outlasts the run.
AbsentScenarios ==
    {[args |-> Args(p, 1, 20, 24, 3), env |-> Env(K3, P1, {5})] : p \in Policies}

NextAbsent ==
    \/ NewStorage
    \/ \E key \in env.keys, data \in env.payloads, ttl \in env.ttls :
          AbsentSet(key, data, ttl)
    \/ \E key \in env.keys : GetWithTTL(key, clock)
    \/ \E key \in env.keys : Get(key)
    \/ \E key \in env.keys : Del(key)
    \/ Tick
    \/ LateTick

SpecAbsent == InitOf(AbsentScenarios) /\ [][NextAbsent]_vars

\* C24 as stated: with maxSize > 0, critSize > 0, maxCleanDepth >= 0, no
\* overwriting Set and one payload length L,
\* size <= max(maxSize, critSize) + L + 16 after every operation.
C24_SizeWithinMaxCritPlusEntry ==
    phase = "ready" /\ args.maxCleanDepth >= 0 =>
        \A i \in DOMAIN shards :
            shards[i].maxSize > 0 /\ shards[i].critSize > 0 =>
                shards[i].size <=
                    (IF shards[i].maxSize > shards[i].critSize
                     THEN shards[i].maxSize ELSE shards[i].critSize) + EntryLen

\* C25 as stated: with maxCleanDepth >= 0, a clean pass that starts with
\* size > maxSize, size >= critSize and a non-empty map evicts at least one
\* entry.
C25_PassAtCritEvicts ==
    /\ FreshSet /\ ret.info.ran
    /\ args.maxCleanDepth >= 0
    /\ ret.info.th[2] > 0
    /\ Len(ret.info.log) > 0
    /\ ret.info.log[1].size >= RetShard.critSize
    => ret.info.evicted # {}

(***************************************************************************)
(* Two key strings with one hash.                                          *)
(***************************************************************************)
\* Three key strings; the first and the last have the same hash.
KCollide == {<<1>>, <<2>>, <<33>>}

CollideScenarios ==
    {[args |-> Args(p, 1, 30, 35, 1), env |-> Env(KCollide, P1, {1})]
        : p \in Policies}

SpecCollide == InitOf(CollideScenarios) /\ [][Next]_vars

\* C26 as stated: entries are isolated per key string: a Get or GetWithTTL
\* hit returns a payload stored by a Set of the same key string, and a Set
\* or Del replaces or removes only an entry stored under the same key
\* string, also when two key strings have the same hash.
C26_KeysIsolated ==
    /\ phase = "ready"
    /\ ret.existed
    /\ \/ ret.op \in Lookups /\ ret.err = "nil"
       \/ ret.op \in {"Set", "Del"}
    => ret.owner = ret.name

\* C27 as stated: a GetWithTTL hit returns a remaining ttl r with
\* 1 <= r <= the ttl of the latest Set of the key, also when the clock
\* advances between the expiry check and the second reading of the clock.
C27_RemainingTtlInRange ==
    Returned("GetWithTTL") /\ ret.err = "nil" /\ ret.last.intact =>
        1 <= ret.ttl /\ ret.ttl <= ret.last.ttl

(***************************************************************************)
(* The TTL storage (ttlstorage.go).  A shard is a map from hash to entry   *)
(* and a size; an entry is an 8-byte expiry followed by the payload.  The  *)
(* calls run in the goroutines of Threads, one statement group per step.   *)
(***************************************************************************)
\* wrapData: expire := now + ttl in uint64, out = expire ++ d
ttlWrapData(d, ttl, now) == [expire |-> (now + ttl) % Word, payload |-> d]

\* unwrapData: d[8:], expire
ttlUnwrapData(e) == <<e.payload, e.expire>>

\* len of a stored entry
ttlLen(e) == Len(e.payload) + TTLHeaderLen

NewTTLShard == [data |-> EmptyMap, size |-> 0]

\* TTLShard.Set between Lock and Unlock
TTLShardSet(s, key, data, ttl, now) ==
    LET exist == key \in DOMAIN s.data
        size1 == IF exist THEN s.size - ttlLen(s.data[key]) ELSE s.size
        d == ttlWrapData(data, ttl, now)
    IN  [data |-> MapPut(s.data, key, d), size |-> size1 + ttlLen(d)]

\* TTLShard.Del between Lock and Unlock: size -= len(d) for the unwrapped d
TTLShardDel(s, key) ==
    IF key \in DOMAIN s.data
    THEN [data |-> MapDelete(s.data, key),
          size |-> s.size - Len(ttlUnwrapData(s.data[key])[1])]
    ELSE s

\* TTLShard.clean between Lock and Unlock: every expired entry goes, in any
\* order of the range loop
RECURSIVE TTLShardClean(_, _, _)
TTLShardClean(s, keys, now) ==
    IF keys = {} THEN s
    ELSE LET k == CHOOSE x \in keys : TRUE
             u == ttlUnwrapData(s.data[k])
             s1 == IF isExpired(u[2], now)
                   THEN [data |-> MapDelete(s.data, k), size |-> s.size - Len(u[1])]
                   ELSE s
         IN  TTLShardClean(s1, keys \ {k}, now)

\* TTLShard.Clear
TTLShardClear(s) == [s EXCEPT !.data = EmptyMap]

\* NewTTLStorage(numShards, cleanPeriod)
TTLArgs(numShards, cleanPeriod) ==
    [policy |-> "TTL", numShards |-> numShards, cleanPeriod |-> cleanPeriod]

\* A goroutine outside any call.  In a call: e, ok are the locals of the map
\* read; gone says that the call deleted an entry, and then del is that
\* entry and delAt the second of the deletion.
TTLIdle == [pc |-> "idle", op |-> "none", key |-> 0, data |-> <<>>, ttl |-> 0,
            ok |-> FALSE, e |-> NoEntry, gone |-> FALSE, del |-> NoEntry,
            delAt |-> 0, val |-> <<>>, rttl |-> 0, err |-> "nil"]

\* clean and Clear go through all shards; they keep the loop index in key
TTLLoops == {"clean", "Clear"}

TTLSh(t) == IF thr[t].op \in TTLLoops THEN thr[t].key ELSE getShard(thr[t].key)

\* the next shard of a loop over the shards, or the return
TTLNextShard(t, pc) ==
    IF thr[t].key + 1 < args.numShards
    THEN [thr EXCEPT ![t].pc = pc, ![t].key = @ + 1]
    ELSE [thr EXCEPT ![t].pc = "return"]

NewTTLStorage ==
    /\ phase = "new"
    /\ shards' = [i \in 0 .. args.numShards - 1 |-> NewTTLShard]
    /\ shardMask' = args.numShards % Word
    /\ phase' = "ready"
    /\ ret' = [NoRet EXCEPT !.op = "New"]
    /\ UNCHANGED <<args, env, clock, hist, cvars>>

\* a call starts; the sweeper goroutine of runCleaning calls clean
TTLCall(t, op, key, data, ttl) ==
    /\ phase = "ready"
    /\ thr[t].pc = "idle"
    /\ calls < MaxCalls
    /\ op = "clean" => args.cleanPeriod > 0
    /\ thr' = [thr EXCEPT ![t] =
                 [TTLIdle EXCEPT !.pc = IF op \in Lookups THEN "rlock"
                                       ELSE IF op = "Clear" THEN "cleardata"
                                       ELSE "lock",
                                 !.op = op,
                                 !.key = IF op \in TTLLoops THEN 0 ELSE getKey(key),
                                 !.data = data, !.ttl = ttl]]
    /\ calls' = calls + 1
    /\ UNCHANGED <<phase, args, env, shards, shardMask, clock, ret, hist, mutex>>

\* GetWithTTL: s.RLock()
TTLRLock(t) ==
    /\ thr[t].pc = "rlock"
    /\ CanRLock(mutex[TTLSh(t)])
    /\ mutex' = [mutex EXCEPT ![TTLSh(t)].readers = @ \cup {t}]
    /\ Goto(t, "read")
    /\ UNCHANGED <<phase, args, env, shards, shardMask, clock, ret, hist, calls>>

\* GetWithTTL: data, ok := s.data[key]
TTLRead(t) ==
    /\ thr[t].pc = "read"
    /\ LET d == shards[TTLSh(t)].data
           ok == thr[t].key \in DOMAIN d
       IN  thr' = [thr EXCEPT ![t].pc = "runlock", ![t].ok = ok,
                              ![t].e = IF ok THEN d[thr[t].key] ELSE NoEntry]
    /\ UNCHANGED <<phase, args, env, shards, shardMask, clock, ret, hist, mutex, calls>>

\* GetWithTTL: s.RUnlock()
TTLRUnlock(t) ==
    /\ thr[t].pc = "runlock"
    /\ mutex' = [mutex EXCEPT ![TTLSh(t)].readers = @ \ {t}]
    /\ thr' = IF thr[t].ok THEN [thr EXCEPT ![t].pc = "check"]
              ELSE [thr EXCEPT ![t].pc = "return", ![t].err = "ErrMissing"]
    /\ UNCHANGED <<phase, args, env, shards, shardMask, clock, ret, hist, calls>>

\* GetWithTTL: if s.isExpired(expire) { s.Del(key) } else ...
TTLCheck(t) ==
    /\ thr[t].pc = "check"
    /\ thr' = IF isExpired(ttlUnwrapData(thr[t].e)[2], clock)
              THEN [thr EXCEPT ![t].pc = "lock", ![t].err = "ErrMissing"]
              ELSE [thr EXCEPT ![t].pc = "ttl"]
    /\ UNCHANGED <<phase, args, env, shards, shardMask, clock, ret, hist, mutex, calls>>

\* GetWithTTL: ttl := expire - uint64(time.Now().Unix()); return d, ttl, nil
TTLReadTTL(t) ==
    /\ thr[t].pc = "ttl"
    /\ thr' = [thr EXCEPT ![t].pc = "return",
                          ![t].val = ttlUnwrapData(thr[t].e)[1],
                          ![t].rttl = (ttlUnwrapData(thr[t].e)[2] - clock) % Word]
    /\ UNCHANGED <<phase, args, env, shards, shardMask, clock, ret, hist, mutex, calls>>

\* Set, Del, clean: s.Lock()
TTLLock(t) ==
    /\ thr[t].pc = "lock"
    /\ CanLock(mutex[TTLSh(t)])
    /\ mutex' = [mutex EXCEPT ![TTLSh(t)].writer = t]
    /\ Goto(t, "body")
    /\ UNCHANGED <<phase, args, env, shards, shardMask, clock, ret, hist, calls>>

\* the statements of Set between Lock and Unlock
TTLSetBody(t) ==
    /\ thr[t].pc = "body" /\ thr[t].op = "Set"
    /\ shards' = [shards EXCEPT ![TTLSh(t)] =
                    TTLShardSet(@, thr[t].key, thr[t].data, thr[t].ttl, clock)]
    /\ Goto(t, "unlock")
    /\ UNCHANGED <<phase, args, env, shardMask, clock, ret, hist, mutex, calls>>

\* the statements of Del between Lock and Unlock, for a call of Del and for
\* the s.Del(key) of a GetWithTTL that read an expired entry
TTLDelBody(t) ==
    /\ thr[t].pc = "body" /\ thr[t].op \in Lookups \cup {"Del"}
    /\ LET s == shards[TTLSh(t)]
           ok == thr[t].key \in DOMAIN s.data
       IN  /\ shards' = [shards EXCEPT ![TTLSh(t)] = TTLShardDel(s, thr[t].key)]
           /\ thr' = [thr EXCEPT ![t].pc = "unlock", ![t].gone = ok,
                                 ![t].del = IF ok THEN s.data[thr[t].key] ELSE NoEntry,
                                 ![t].delAt = clock]
    /\ UNCHANGED <<phase, args, env, shardMask, clock, ret, hist, mutex, calls>>

\* the loop of clean between Lock and Unlock
TTLCleanBody(t) ==
    /\ thr[t].pc = "body" /\ thr[t].op = "clean"
    /\ shards' = [shards EXCEPT ![TTLSh(t)] =
                    TTLShardClean(@, DOMAIN @.data, clock)]
    /\ Goto(t, "unlock")
    /\ UNCHANGED <<phase, args, env, shardMask, clock, ret, hist, mutex, calls>>

\* s.Unlock(); clean goes on with the next shard
TTLUnlock(t) ==
    /\ thr[t].pc = "unlock"
    /\ mutex' = [mutex EXCEPT ![TTLSh(t)].writer = 0]
    /\ thr' = IF thr[t].op = "clean" THEN TTLNextShard(t, "lock")
              ELSE [thr EXCEPT ![t].pc = "return"]
    /\ UNCHANGED <<phase, args, env, shards, shardMask, clock, ret, hist, calls>>

\* Clear: s.data = make(map[uint64][]byte) for the next shard, without locking
TTLClearData(t) ==
    /\ thr[t].pc = "cleardata"
    /\ shards' = [shards EXCEPT ![TTLSh(t)] = TTLShardClear(@)]
    /\ thr' = TTLNextShard(t, "cleardata")
    /\ UNCHANGED <<phase, args, env, shardMask, clock, ret, hist, mutex, calls>>

\* the call returns
TTLReturn(t) ==
    /\ thr[t].pc = "return"
    /\ ret' = [NoRet EXCEPT !.op = thr[t].op, !.key = thr[t].key,
                            !.val = thr[t].val, !.ttl = thr[t].rttl,
                            !.err = thr[t].err, !.existed = thr[t].gone,
                            !.expire = thr[t].del.expire, !.now = thr[t].delAt]
    /\ thr' = [thr EXCEPT ![t] = Idle]
    /\ UNCHANGED <<phase, args, env, shards, shardMask, clock, hist, mutex, calls>>

\* One shard and one key, a ttl of one second, without and with the sweeper.
TTLScenarios ==
    {[args |-> TTLArgs(1, cp), env |-> Env(K1, P1, {1})] : cp \in {0, 1}}

NextTTL ==
    \/ NewTTLStorage
    \/ \E t \in Threads, key \in env.keys, data \in env.payloads, ttl \in env.ttls :
          TTLCall(t, "Set", key, data, ttl)
    \/ \E t \in Threads, key \in env.keys, op \in Lookups \cup {"Del"} :
          TTLCall(t, op, key, <<>>, 0)
    \/ \E t \in Threads, op \in TTLLoops : TTLCall(t, op, <<>>, <<>>, 0)
    \/ \E t \in Threads : TTLRLock(t)
    \/ \E t \in Threads : TTLRead(t)
    \/ \E t \in Threads : TTLRUnlock(t)
    \/ \E t \in Threads : TTLCheck(t)
    \/ \E t \in Threads : TTLReadTTL(t)
    \/ \E t \in Threads : TTLLock(t)
    \/ \E t \in Threads : TTLSetBody(t)
    \/ \E t \in Threads : TTLDelBody(t)
    \/ \E t \in Threads : TTLCleanBody(t)
    \/ \E t \in Threads : TTLUnlock(t)
    \/ \E t \in Threads : TTLClearData(t)
    \/ \E t \in Threads : TTLReturn(t)
    \/ Tick

SpecTTL == InitOf(TTLScenarios) /\ [][NextTTL]_vars

\* C28 as stated: the s.Del(key) of a Get or GetWithTTL that read an expired
\* entry under the read lock never deletes a fresh (unexpired) value that a
\* concurrent Set stored after the read lock was released.
C28_LazyDelSparesFreshValue ==
    ret.op \in Lookups /\ ret.existed => isExpired(ret.expire, ret.now)

RECURSIVE TTLSumLen(_, _)
TTLSumLen(m, keys) ==
    IF keys = {} THEN 0
    ELSE LET k == CHOOSE x \in keys : TRUE
         IN  ttlLen(m[k]) + TTLSumLen(m, keys \ {k})

RECURSIVE SumSizes(_, _)
SumSizes(ss, ids) ==
    IF ids = {} THEN 0
    ELSE LET i == CHOOSE x \in ids : TRUE
         IN  ss[i].size + SumSizes(ss, ids \ {i})

RECURSIVE SumEntryLens(_, _)
SumEntryLens(ss, ids) ==
    IF ids = {} THEN 0
    ELSE LET i == CHOOSE x \in ids : TRUE
         IN  TTLSumLen(ss[i].data, DOMAIN ss[i].data) + SumEntryLens(ss, ids \ {i})

\* TTLStorage.GetSize: the sum of the shards' size fields
TTLGetSize == SumSizes(shards, DOMAIN shards)

\* the sum of len(entry) over all entries of all shards
TTLTotalLen == SumEntryLens(shards, DOMAIN shards)

\* C29 as stated: after every completed Set, Del, lazy expiry of a Get,
\* sweeper clean and Clear of the TTL storage, GetSize equals the sum of the
\* lengths of the entries in the maps.
C29_TTLSizeIsSumOfEntries ==
    phase = "ready" /\ Quiet => TTLGetSize = TTLTotalLen

====
